---------------------------- MODULE Spec2Model ----------------------------
(***************************************************************************)
(* State-machine model of the SKU-system front end: the auth context and   *)
(* the role guard of the pages, the admin complaint management component,  *)
(* the retailer price management component, the farmer complaint           *)
(* registration form and the price comparison page.                        *)
(*                                                                         *)
(* Each component keeps its own React state; a component's specification   *)
(* (SpecAuth, SpecCM, ...) steps that component and leaves the state of    *)
(* the others alone.                                                       *)
(***************************************************************************)
EXTENDS Integers, Sequences, FiniteSets, TLC

VARIABLES
    \* ---- AuthProvider / router --------------------------------------
    user,          \* AuthContext user: "none" (null) or the user's role
    isLoading,     \* AuthContext isLoading
    accessToken,   \* localStorage access_token: NoToken or the token
    refreshToken,  \* localStorage refresh_token: NoToken or the token
    calls,         \* per caller: the request in flight and the interceptor's state
    initPc,        \* initializeAuth: "start" | "fetching" | "done"
    authReq,       \* login()/register() in flight: "idle" | "login" | "register"
    route,         \* the page the router shows
    effectDue,     \* the page's useEffect has to run for the current state
    navPending,    \* window.location.href assigned, document not yet replaced
    showUserMenu,  \* Header: the user menu is open
    loginDuringInit, \* history: a login resolved while the startup fetch was in flight
    \* ---- ComplaintManagement / MyComplaints --------------------------
    mounted,               \* which complaint component is on the page
    complaints,            \* useQuery data: complaint id -> status, as received
    complaintsFetching,    \* the complaints query is fetching
    selectedComplaint,     \* the complaint object held in state, or NoComplaint
    isDetailModalOpen,
    isResolutionModalOpen,
    resolutionData,        \* resolution_action / _report / _notes
    cmRequests,            \* mutation requests in flight
    cmToast,               \* the toast shown last
    \* ---- PriceManagement.getReferencePrice ----------------------------
    referencePrices,       \* the reference-prices query: loaded?, results
    rpArgs,                \* the arguments of the last getReferencePrice call
    rpResult,              \* what that call returned
    \* ---- PriceManagement ----------------------------------------------
    publishedPrices,       \* the published-prices query: loaded?, fetching?, results
    isCreateModalOpen,
    editingPrice,          \* the price being edited, or NoPrice
    pmError,               \* the error text
    form,                  \* the react-hook-form values: sku_id, district_id, price
    createMutation,        \* createPriceMutation: status, variables
    updateMutation,        \* updatePriceMutation: status, variables
    deletePending,         \* deletePriceMutation requests in flight
    timers,                \* setTimeout callbacks not yet run: the price each holds
    rejected,              \* history: the state a create rejection left behind
    closedByUser,          \* history: handleCloseModal ran and the user has not opened the modal since
    \* ---- ComplaintRegistration ----------------------------------------
    isOpen,
    formData,              \* the fields handleSubmit validates
    evidenceFiles,         \* how many files are attached
    isSubmitting,
    createComplaint,       \* createComplaintMutation: phase, data sent, uploads left
    crToast,               \* the last toast shown
    crLast,                \* history: the handler that ran last
    \* ---- ComparisonPage -----------------------------------------------
    selectedPrices,
    cpLast,                \* history: the last click, and whether its row was selected
    \* ---- RetailerDashboard / CompliancePage ---------------------------
    cfPage,                \* which of the two components is on the page
    cfPrices               \* the published-prices query: loaded?, the compliant flags

authVars == <<user, isLoading, accessToken, refreshToken, calls, initPc, authReq, route,
              effectDue, navPending, showUserMenu, loginDuringInit>>

cmVars == <<mounted, complaints, complaintsFetching, selectedComplaint,
            isDetailModalOpen, isResolutionModalOpen, resolutionData,
            cmRequests, cmToast>>

rpVars == <<referencePrices, rpArgs, rpResult>>

pmVars == <<publishedPrices, isCreateModalOpen, editingPrice, pmError, form,
            createMutation, updateMutation, deletePending, timers, rejected, closedByUser>>

crVars == <<isOpen, formData, evidenceFiles, isSubmitting, createComplaint, crToast, crLast>>

cpVars == <<selectedPrices, cpLast>>

cfVars == <<cfPage, cfPrices>>

vars == <<authVars, cmVars, rpVars, pmVars, crVars, cpVars, cfVars>>

\* the state of the other components, which a component's operations leave alone
notAuth == <<cmVars, rpVars, pmVars, crVars, cpVars, cfVars>>

notCM == <<authVars, rpVars, pmVars, crVars, cpVars, cfVars>>

notRP == <<authVars, cmVars, pmVars, crVars, cpVars, cfVars>>

notPM == <<authVars, cmVars, rpVars, crVars, cpVars, cfVars>>

notCR == <<authVars, cmVars, rpVars, pmVars, cpVars, cfVars>>

notCP == <<authVars, cmVars, rpVars, pmVars, crVars, cfVars>>

notCF == <<authVars, cmVars, rpVars, pmVars, crVars, cpVars>>

----------------------------------------------------------------------------
(* Roles.  The front end's User type knows three roles; the back end the   *)
(* README documents serves five.                                           *)

FrontendRoles == {"gov_admin", "retailer", "farmer"}

Roles == FrontendRoles \cup {"district_officer", "inspector"}

NoUser == "none"

isAuthenticated == user # NoUser

----------------------------------------------------------------------------
(* Pages *)

ProtectedPages ==
    {"/dashboard/admin", "/dashboard/retailer", "/dashboard/retailer/prices",
     "/dashboard/farmer", "/dashboard/farmer/search"}

PublicPages == {"/login", "/register"}

Pages == {"/", "/dashboard"} \cup ProtectedPages \cup PublicPages

\* the allowedRoles prop each page passes to ProtectedRoute
AllowedRoles(page) ==
    CASE page = "/dashboard/admin"           -> {"gov_admin"}
      [] page = "/dashboard/retailer"        -> {"retailer"}
      [] page = "/dashboard/retailer/prices" -> {"retailer"}
      [] page = "/dashboard/farmer"          -> {"farmer"}
      [] page = "/dashboard/farmer/search"   -> {"farmer"}
      [] OTHER                               -> FrontendRoles

\* the if / else-if chain that picks a role's dashboard; "none": no branch taken
RoleDashboard(role) ==
    IF role = "gov_admin" THEN "/dashboard/admin"
    ELSE IF role = "retailer" THEN "/dashboard/retailer"
    ELSE IF role = "farmer" THEN "/dashboard/farmer"
    ELSE "none"

\* ProtectedRoute's useEffect: the route router.push is called with, or "none"
ProtectedRouteEffect(allowedRoles) ==
    IF ~isLoading
    THEN IF ~isAuthenticated THEN "/login"
         ELSE IF user # NoUser /\ user \notin allowedRoles THEN RoleDashboard(user)
         ELSE "none"
    ELSE "none"

\* HomePage's useEffect
HomePageEffect ==
    IF ~isLoading
    THEN IF isAuthenticated /\ user # NoUser THEN RoleDashboard(user)
         ELSE "/login"
    ELSE "none"

\* DashboardPage's useEffect
DashboardPageEffect ==
    IF ~isLoading /\ user # NoUser THEN RoleDashboard(user) ELSE "none"

PageEffect(page) ==
    IF page \in ProtectedPages THEN ProtectedRouteEffect(AllowedRoles(page))
    ELSE IF page = "/" THEN HomePageEffect
    ELSE IF page = "/dashboard" THEN DashboardPageEffect
    ELSE "none"

\* what ProtectedRoute returns
MutProtectedRouteRender(allowedRoles) ==
    IF isLoading THEN "spinner"
    ELSE IF ~isAuthenticated THEN "nothing"
    ELSE "children"

ProtectedRouteRender(allowedRoles) ==
    IF isLoading THEN "spinner"
    ELSE IF ~isAuthenticated THEN "nothing"
    ELSE IF user # NoUser /\ user \notin allowedRoles THEN "nothing"
    ELSE "children"

----------------------------------------------------------------------------
(* ApiClient: the tokens in local storage, the requests in flight and the  *)
(* response interceptor.  A call is one request made by the application;   *)
(* while the interceptor handles a 401 the request in flight for the call  *)
(* is a token-refresh request, and the interceptor frames that wait for it *)
(* are counted in nest up to MaxNest; of the frames beyond MaxNest only    *)
(* the parity of their number is kept, in over.                            *)

\* localStorage.getItem(...) === null
NoToken == 0

\* the token pairs the server issues
NumTokens == 2

Tokens == 1..NumTokens

\* interceptor frames waiting for a refresh are counted up to MaxNest;
\* frames beyond that are not told apart
MaxNest == 2

\* the callers: initializeAuth's getProfile, login / register, and the data
\* requests of the pages
Slots == {"profile", "auth", "data1", "data2"}

DataSlots == {"data1", "data2"}

\* no request in flight for the call; result is how the last one settled
IdleCall(result) ==
    [active |-> FALSE, nest |-> 0, retry |-> FALSE, hdr |-> NoToken, over |-> 0,
     result |-> result]

\* this.client.<method>(...): the request interceptor attaches the stored
\* access token; the config has no _retry yet
SentCall ==
    [active |-> TRUE, nest |-> 0, retry |-> FALSE, hdr |-> accessToken, over |-> 0,
     result |-> "none"]

\* the answers that are not a well-formed success: 401, another failure
\* (4xx, 5xx, network), a 2xx refresh answer without data.tokens
Failures == {"401", "error", "malformed"}

\* the interceptor tries a refresh: 401, config._retry unset, refresh token stored
TriesRefresh(c, answer) ==
    answer = "401" /\ ~c.retry /\ refreshToken # NoToken

\* the request in flight settles as rejected
Rejects(c, answer) ==
    \/ answer = "error"
    \/ answer = "401" /\ ~TriesRefresh(c, answer)
    \/ answer = "malformed" /\ c.nest > 0

\* a rejected refresh request lands in the catch of the frame that awaits
\* it: clearTokens(), window.location.href = '/login', and that frame
\* rejects in turn, down to the caller
TokenAfterRejection(c, token) == IF c.nest > 0 THEN NoToken ELSE token

NavAfterRejection(c) == IF c.nest > 0 THEN "/login" ELSE navPending

\* a pending passive effect is flushed before the next event is handled;
\* nothing runs in a document that is being replaced
Settled == ~effectDue

\* the dashboard layout, with the sidebar and the header, is among the
\* children of ProtectedRoute
LayoutShown ==
    /\ route \in ProtectedPages
    /\ ProtectedRouteRender(AllowedRoles(route)) = "children"

\* 401 on a request not retried yet, refresh token stored:
\* _retry = true; await this.refreshToken(refreshToken)
Unauthorized(slot) ==
    /\ calls[slot].active
    /\ TriesRefresh(calls[slot], "401")
    /\ calls' = [calls EXCEPT ![slot] =
                    [active |-> TRUE,
                     nest |-> IF @.nest < MaxNest THEN @.nest + 1 ELSE MaxNest,
                     retry |-> FALSE, hdr |-> accessToken,
                     over |-> IF @.nest = MaxNest THEN 1 - @.over ELSE 0,
                     result |-> "none"]]
    /\ UNCHANGED <<user, isLoading, accessToken, refreshToken, initPc, authReq, route,
                   effectDue, navPending, showUserMenu, loginDuringInit>>
    /\ UNCHANGED notAuth

\* a refresh that stores only the access token
MutRefreshSucceeded(slot, token) ==
    /\ calls[slot].active
    /\ calls[slot].nest > 0
    /\ accessToken' = token
    /\ calls' = [calls EXCEPT ![slot] =
                    [active |-> TRUE, nest |-> @.nest - 1, retry |-> TRUE,
                     hdr |-> token, over |-> 0, result |-> "none"]]
    /\ UNCHANGED <<user, isLoading, refreshToken, initPc, authReq, route,
                   effectDue, navPending, showUserMenu, loginDuringInit>>
    /\ UNCHANGED notAuth

\* the refresh request resolved with tokens: setTokens(tokens), the
\* Authorization header is replaced and the awaiting request is sent again,
\* its _retry set
RefreshSucceeded(slot, token) ==
    /\ calls[slot].active
    /\ calls[slot].nest > 0
    /\ accessToken' = token
    /\ refreshToken' = token
    /\ calls' = [calls EXCEPT ![slot] =
                    [active |-> TRUE, nest |-> @.nest - 1, retry |-> TRUE,
                     hdr |-> token, over |-> 0, result |-> "none"]]
    /\ UNCHANGED <<user, isLoading, initPc, authReq, route,
                   effectDue, navPending, showUserMenu, loginDuringInit>>
    /\ UNCHANGED notAuth

\* a page shown to a signed-in user sends a data request
StartRequest(slot) ==
    /\ slot \in DataSlots
    /\ ~calls[slot].active
    /\ LayoutShown
    /\ Settled
    /\ navPending = "none"
    /\ calls' = [calls EXCEPT ![slot] = SentCall]
    /\ UNCHANGED <<user, isLoading, accessToken, refreshToken, initPc, authReq, route,
                   effectDue, navPending, showUserMenu, loginDuringInit>>
    /\ UNCHANGED notAuth

\* the data request (first send or re-send) resolved
DataSucceeded(slot) ==
    /\ slot \in DataSlots
    /\ calls[slot].active
    /\ calls[slot].nest = 0
    /\ calls' = [calls EXCEPT ![slot] = IdleCall("resolved")]
    /\ UNCHANGED <<user, isLoading, accessToken, refreshToken, initPc, authReq, route,
                   effectDue, navPending, showUserMenu, loginDuringInit>>
    /\ UNCHANGED notAuth

\* a failed refresh that leaves the tokens in storage
MutDataFailed(slot, answer) ==
    /\ slot \in DataSlots
    /\ calls[slot].active
    /\ Rejects(calls[slot], answer)
    /\ navPending' = NavAfterRejection(calls[slot])
    /\ calls' = [calls EXCEPT ![slot] = IdleCall("rejected")]
    /\ UNCHANGED <<user, isLoading, accessToken, refreshToken, initPc, authReq, route,
                   effectDue, showUserMenu, loginDuringInit>>
    /\ UNCHANGED notAuth

\* the request in flight for a data call rejected: return Promise.reject(error)
DataFailed(slot, answer) ==
    /\ slot \in DataSlots
    /\ calls[slot].active
    /\ Rejects(calls[slot], answer)
    /\ accessToken' = TokenAfterRejection(calls[slot], accessToken)
    /\ refreshToken' = TokenAfterRejection(calls[slot], refreshToken)
    /\ navPending' = NavAfterRejection(calls[slot])
    /\ calls' = [calls EXCEPT ![slot] = IdleCall("rejected")]
    /\ UNCHANGED <<user, isLoading, initPc, authReq, route,
                   effectDue, showUserMenu, loginDuringInit>>
    /\ UNCHANGED notAuth

----------------------------------------------------------------------------
(* AuthProvider *)

NoCalls == [slot \in Slots |-> IdleCall("none")]

AuthInit ==
    /\ user = NoUser
    /\ isLoading = TRUE
    /\ accessToken \in {NoToken} \cup Tokens
    /\ refreshToken = accessToken
    /\ calls = NoCalls
    /\ initPc = "start"
    /\ authReq = "idle"
    /\ route \in Pages
    /\ effectDue = TRUE
    /\ navPending = "none"
    /\ showUserMenu = FALSE
    /\ loginDuringInit = FALSE

\* initializeAuth up to its await (or to its end when no token is stored)
InitializeAuth ==
    /\ initPc = "start"
    /\ IF accessToken # NoToken
       THEN /\ initPc' = "fetching"
            /\ calls' = [calls EXCEPT !["profile"] = SentCall]
            /\ UNCHANGED <<isLoading, effectDue>>
       ELSE /\ initPc' = "done"
            /\ isLoading' = FALSE
            /\ effectDue' = TRUE
            /\ UNCHANGED calls
    /\ UNCHANGED <<user, accessToken, refreshToken, authReq, route, navPending,
                   showUserMenu, loginDuringInit>>
    /\ UNCHANGED notAuth

\* getProfile resolved: setUser(response.data); finally setIsLoading(false)
ProfileFetched(role) ==
    /\ initPc = "fetching"
    /\ calls["profile"].active
    /\ calls["profile"].nest = 0
    /\ Settled
    /\ initPc' = "done"
    /\ calls' = [calls EXCEPT !["profile"] = IdleCall("resolved")]
    /\ user' = role
    /\ isLoading' = FALSE
    /\ effectDue' = TRUE
    /\ UNCHANGED <<accessToken, refreshToken, authReq, route, navPending,
                   showUserMenu, loginDuringInit>>
    /\ UNCHANGED notAuth

\* getProfile rejected: apiClient.logout(); finally setIsLoading(false)
ProfileFailed(answer) ==
    /\ initPc = "fetching"
    /\ calls["profile"].active
    /\ Rejects(calls["profile"], answer)
    /\ Settled
    /\ initPc' = "done"
    /\ calls' = [calls EXCEPT !["profile"] = IdleCall("rejected")]
    /\ accessToken' = NoToken
    /\ refreshToken' = NoToken
    /\ navPending' = "/login"
    /\ isLoading' = FALSE
    /\ effectDue' = TRUE
    /\ UNCHANGED <<user, authReq, route, showUserMenu, loginDuringInit>>
    /\ UNCHANGED notAuth

\* login() / register() up to the await; the form is submitted after the
\* effects of the mount, initializeAuth among them, have run
AuthRequest(kind) ==
    /\ route = (IF kind = "login" THEN "/login" ELSE "/register")
    /\ authReq = "idle"
    /\ initPc # "start"
    /\ Settled
    /\ navPending = "none"
    /\ authReq' = kind
    /\ calls' = [calls EXCEPT !["auth"] = SentCall]
    /\ isLoading' = TRUE
    /\ effectDue' = TRUE
    /\ UNCHANGED <<user, accessToken, refreshToken, initPc, route, navPending,
                   showUserMenu, loginDuringInit>>
    /\ UNCHANGED notAuth

\* a login that sets the user without storing the tokens
MutAuthSucceeded(role, token) ==
    /\ authReq # "idle"
    /\ calls["auth"].active
    /\ calls["auth"].nest = 0
    /\ Settled
    /\ authReq = "register" => role \in {"retailer", "farmer"}
    /\ calls' = [calls EXCEPT !["auth"] = IdleCall("resolved")]
    /\ user' = role
    /\ isLoading' = FALSE
    /\ authReq' = "idle"
    /\ effectDue' = TRUE
    /\ loginDuringInit' = (initPc = "fetching")
    /\ UNCHANGED <<accessToken, refreshToken, initPc, route, navPending,
                   showUserMenu>>
    /\ UNCHANGED notAuth

\* the request resolved: tokens stored, setUser; finally setIsLoading(false)
AuthSucceeded(role, token) ==
    /\ authReq # "idle"
    /\ calls["auth"].active
    /\ calls["auth"].nest = 0
    /\ Settled
    /\ authReq = "register" => role \in {"retailer", "farmer"}
    /\ calls' = [calls EXCEPT !["auth"] = IdleCall("resolved")]
    /\ accessToken' = token
    /\ refreshToken' = token
    /\ user' = role
    /\ isLoading' = FALSE
    /\ authReq' = "idle"
    /\ effectDue' = TRUE
    /\ loginDuringInit' = (initPc = "fetching")
    /\ UNCHANGED <<initPc, route, navPending, showUserMenu>>
    /\ UNCHANGED notAuth

\* the request rejected: rethrown; finally setIsLoading(false)
AuthFailed(answer) ==
    /\ authReq # "idle"
    /\ calls["auth"].active
    /\ Rejects(calls["auth"], answer)
    /\ Settled
    /\ calls' = [calls EXCEPT !["auth"] = IdleCall("rejected")]
    /\ accessToken' = TokenAfterRejection(calls["auth"], accessToken)
    /\ refreshToken' = TokenAfterRejection(calls["auth"], refreshToken)
    /\ navPending' = NavAfterRejection(calls["auth"])
    /\ isLoading' = FALSE
    /\ authReq' = "idle"
    /\ effectDue' = TRUE
    /\ UNCHANGED <<user, initPc, route, showUserMenu, loginDuringInit>>
    /\ UNCHANGED notAuth

\* the sidebar's 'Logout' button: logout(), that is apiClient.logout()
\* (clearTokens, window.location.href = '/login') and setUser(null)
Logout ==
    /\ LayoutShown
    /\ Settled
    /\ accessToken' = NoToken
    /\ refreshToken' = NoToken
    /\ navPending' = "/login"
    /\ user' = NoUser
    /\ effectDue' = TRUE
    /\ loginDuringInit' = FALSE
    /\ UNCHANGED <<isLoading, calls, initPc, authReq, route, showUserMenu>>
    /\ UNCHANGED notAuth

\* the header's user button: setShowUserMenu(!showUserMenu)
ToggleUserMenu ==
    /\ LayoutShown
    /\ Settled
    /\ showUserMenu' = ~showUserMenu
    /\ UNCHANGED <<user, isLoading, accessToken, refreshToken, calls, initPc, authReq,
                   route, effectDue, navPending, loginDuringInit>>
    /\ UNCHANGED notAuth

\* the 'Sign out' button of the header's user menu: setShowUserMenu(false)
HeaderSignOut ==
    /\ LayoutShown
    /\ Settled
    /\ showUserMenu
    /\ showUserMenu' = FALSE
    /\ UNCHANGED <<user, isLoading, accessToken, refreshToken, calls, initPc, authReq,
                   route, effectDue, navPending, loginDuringInit>>
    /\ UNCHANGED notAuth

\* the page's effect: router.push(target) shows the target page, whose own
\* effect then runs on mount
RunEffect ==
    /\ effectDue
    /\ LET target == PageEffect(route) IN
        IF target = "none" \/ target = route
        THEN /\ effectDue' = FALSE
             /\ UNCHANGED route
        ELSE /\ route' = target
             /\ effectDue' = TRUE
    /\ UNCHANGED <<user, isLoading, accessToken, refreshToken, calls, initPc, authReq,
                   navPending, showUserMenu, loginDuringInit>>
    /\ UNCHANGED notAuth

\* the user follows a link: client-side navigation, the provider stays mounted
Navigate(page) ==
    /\ Settled
    /\ navPending = "none"
    /\ page # route
    /\ route' = page
    /\ effectDue' = TRUE
    /\ UNCHANGED <<user, isLoading, accessToken, refreshToken, calls, initPc, authReq,
                   navPending, showUserMenu, loginDuringInit>>
    /\ UNCHANGED notAuth

\* a document load (window.location.href = ..., or the user opens a URL):
\* the provider is mounted afresh and the requests in flight are dropped
LoadDocument(page) ==
    /\ user' = NoUser
    /\ isLoading' = TRUE
    /\ initPc' = "start"
    /\ authReq' = "idle"
    /\ calls' = NoCalls
    /\ route' = page
    /\ effectDue' = TRUE
    /\ navPending' = "none"
    /\ showUserMenu' = FALSE
    /\ loginDuringInit' = FALSE
    /\ UNCHANGED <<accessToken, refreshToken>>
    /\ UNCHANGED notAuth

HardNavigate ==
    /\ navPending # "none"
    /\ LoadDocument(navPending)

OpenUrl(page) ==
    /\ navPending = "none"
    /\ Settled
    /\ LoadDocument(page)

\* the calls AuthProvider makes; the data requests are the subject of the
\* interceptor specification
AuthSlots == {"profile", "auth"}

AuthNext ==
    \/ InitializeAuth
    \/ \E role \in Roles : ProfileFetched(role)
    \/ \E answer \in Failures : ProfileFailed(answer)
    \/ \E kind \in {"login", "register"} : AuthRequest(kind)
    \/ \E role \in Roles, token \in Tokens : AuthSucceeded(role, token)
    \/ \E answer \in Failures : AuthFailed(answer)
    \/ \E slot \in AuthSlots : Unauthorized(slot)
    \/ \E slot \in AuthSlots, token \in Tokens : RefreshSucceeded(slot, token)
    \/ Logout
    \/ ToggleUserMenu
    \/ HeaderSignOut
    \/ RunEffect
    \/ \E page \in Pages : Navigate(page)
    \/ HardNavigate
    \/ \E page \in Pages : OpenUrl(page)

\* the interceptor with two data requests of a signed-in retailer
ApiInit ==
    /\ user = "retailer"
    /\ isLoading = FALSE
    /\ accessToken \in Tokens
    /\ refreshToken = accessToken
    /\ calls = NoCalls
    /\ initPc = "done"
    /\ authReq = "idle"
    /\ route = "/dashboard/retailer"
    /\ effectDue = FALSE
    /\ navPending = "none"
    /\ showUserMenu = FALSE
    /\ loginDuringInit = FALSE

ApiNext ==
    \/ \E slot \in DataSlots : StartRequest(slot)
    \/ \E slot \in DataSlots : Unauthorized(slot)
    \/ \E slot \in DataSlots, token \in Tokens : RefreshSucceeded(slot, token)
    \/ \E slot \in DataSlots : DataSucceeded(slot)
    \/ \E slot \in DataSlots, answer \in Failures : DataFailed(slot, answer)
    \/ HardNavigate

\* the start of the application: the mount of AuthProvider and what follows
\* from it without the user acting
StartupNext ==
    \/ InitializeAuth
    \/ \E role \in Roles : ProfileFetched(role)
    \/ \E answer \in Failures : ProfileFailed(answer)
    \/ Unauthorized("profile")
    \/ \E token \in Tokens : RefreshSucceeded("profile", token)
    \/ RunEffect
    \/ HardNavigate


----------------------------------------------------------------------------
(* ComplaintManagement (admin) and MyComplaints (farmer) *)

\* Complaint.status
Statuses == {"pending", "under_review", "investigation", "waiting_response",
             "resolved", "rejected", "closed"}

ComplaintIds == {1, 2}

UserIds == {7}

\* mutation requests in flight at a time, in the model
MaxInflight == 1

NoComplaint == [id |-> 0, status |-> "none"]

EmptyResolution ==
    [resolution_action |-> "", resolution_report |-> "", resolution_notes |-> ""]

Texts == {"", "text"}

\* the lists a complaints query can answer with
\* The component tells 'pending' and 'under_review' from the rest and treats
\* the rest alike; the lists of the model hold two of the rest.
ListedStatuses == {"pending", "under_review", "investigation", "resolved"}

ComplaintLists == UNION {[ids -> ListedStatuses] : ids \in SUBSET ComplaintIds}

\* the complaint object of the list
ListItem(id) == [id |-> id, status |-> complaints[id]]

CMInit ==
    /\ mounted \in {"ComplaintManagement", "MyComplaints"}
    /\ complaints = <<>>
    /\ complaintsFetching = TRUE
    /\ selectedComplaint = NoComplaint
    /\ isDetailModalOpen = FALSE
    /\ isResolutionModalOpen = FALSE
    /\ resolutionData = EmptyResolution
    /\ cmRequests = {}
    /\ cmToast = "none"

IsAdmin == mounted = "ComplaintManagement"

\* an open Modal covers the page: the list's buttons are reached only when
\* no modal is open
PageClickable == ~isDetailModalOpen /\ ~isResolutionModalOpen

\* the 'Start Review' button is rendered for this status
MutStartReviewOffered(status) == status \in {"pending", "under_review"}

StartReviewOffered(status) == status = "pending"

\* the 'Resolve' button is rendered for this status
ResolveOffered(status) == status = "under_review"

\* the list query answers (first load, refetch after invalidateQueries)
ComplaintsFetched(data) ==
    /\ complaintsFetching
    /\ complaints' = data
    /\ complaintsFetching' = FALSE
    /\ UNCHANGED <<notCM, mounted, selectedComplaint, isDetailModalOpen,
                   isResolutionModalOpen, resolutionData, cmRequests, cmToast>>

\* the list query fails: the data held stays
ComplaintsFetchFailed ==
    /\ complaintsFetching
    /\ complaintsFetching' = FALSE
    /\ UNCHANGED <<notCM, mounted, complaints, selectedComplaint, isDetailModalOpen,
                   isResolutionModalOpen, resolutionData, cmRequests, cmToast>>

\* the query refetches on its own (window focus, reconnect)
ComplaintsRefetch ==
    /\ ~complaintsFetching
    /\ complaintsFetching' = TRUE
    /\ UNCHANGED <<notCM, mounted, complaints, selectedComplaint, isDetailModalOpen,
                   isResolutionModalOpen, resolutionData, cmRequests, cmToast>>

\* handleViewDetails(complaint), of either component
handleViewDetails(id) ==
    /\ PageClickable
    /\ id \in DOMAIN complaints
    /\ selectedComplaint' = ListItem(id)
    /\ isDetailModalOpen' = TRUE
    /\ UNCHANGED <<notCM, mounted, complaints, complaintsFetching,
                   isResolutionModalOpen, resolutionData, cmRequests, cmToast>>

\* handleCloseModal, of either component
handleCloseModal ==
    /\ isDetailModalOpen
    /\ isDetailModalOpen' = FALSE
    /\ selectedComplaint' = NoComplaint
    /\ UNCHANGED <<notCM, mounted, complaints, complaintsFetching,
                   isResolutionModalOpen, resolutionData, cmRequests, cmToast>>

CanSend == Cardinality(cmRequests) < MaxInflight

\* handleUpdateStatus(complaintId, status): updateStatusMutation.mutate.
\* held is the status the component held for the complaint at the click.
handleUpdateStatus(complaintId, status, held) ==
    /\ CanSend
    /\ cmRequests' = cmRequests \cup
          {[kind |-> "status", id |-> complaintId, status |-> status, held |-> held]}

\* the list's 'Start Review' button
ListStartReview(id) ==
    /\ IsAdmin
    /\ PageClickable
    /\ id \in DOMAIN complaints
    /\ StartReviewOffered(complaints[id])
    /\ handleUpdateStatus(id, "under_review", complaints[id])
    /\ UNCHANGED <<notCM, mounted, complaints, complaintsFetching, selectedComplaint,
                   isDetailModalOpen, isResolutionModalOpen, resolutionData, cmToast>>

\* a 'Resolve' button that opens the modal without selecting the complaint
MutListResolve(id) ==
    /\ IsAdmin
    /\ PageClickable
    /\ id \in DOMAIN complaints
    /\ ResolveOffered(complaints[id])
    /\ isResolutionModalOpen' = TRUE
    /\ UNCHANGED <<notCM, mounted, complaints, complaintsFetching, selectedComplaint,
                   isDetailModalOpen, resolutionData, cmRequests, cmToast>>

\* the list's 'Resolve' button
ListResolve(id) ==
    /\ IsAdmin
    /\ PageClickable
    /\ id \in DOMAIN complaints
    /\ ResolveOffered(complaints[id])
    /\ selectedComplaint' = ListItem(id)
    /\ isResolutionModalOpen' = TRUE
    /\ UNCHANGED <<notCM, mounted, complaints, complaintsFetching, isDetailModalOpen,
                   resolutionData, cmRequests, cmToast>>

\* the detail modal's 'Start Review' button
DetailStartReview ==
    /\ IsAdmin
    /\ isDetailModalOpen
    /\ selectedComplaint # NoComplaint
    /\ StartReviewOffered(selectedComplaint.status)
    /\ handleUpdateStatus(selectedComplaint.id, "under_review", selectedComplaint.status)
    /\ UNCHANGED <<notCM, mounted, complaints, complaintsFetching, selectedComplaint,
                   isDetailModalOpen, isResolutionModalOpen, resolutionData, cmToast>>

\* the detail modal's 'Resolve Complaint' button
DetailResolve ==
    /\ IsAdmin
    /\ isDetailModalOpen
    /\ selectedComplaint # NoComplaint
    /\ ResolveOffered(selectedComplaint.status)
    /\ isDetailModalOpen' = FALSE
    /\ isResolutionModalOpen' = TRUE
    /\ UNCHANGED <<notCM, mounted, complaints, complaintsFetching, selectedComplaint,
                   resolutionData, cmRequests, cmToast>>

\* a textarea of the resolution modal changes
SetResolutionField(field, text) ==
    /\ isResolutionModalOpen
    /\ resolutionData[field] # text
    /\ resolutionData' = [resolutionData EXCEPT ![field] = text]
    /\ UNCHANGED <<notCM, mounted, complaints, complaintsFetching, selectedComplaint,
                   isDetailModalOpen, isResolutionModalOpen, cmRequests, cmToast>>

handleCloseResolutionModal ==
    /\ isResolutionModalOpen
    /\ isResolutionModalOpen' = FALSE
    /\ resolutionData' = EmptyResolution
    /\ UNCHANGED <<notCM, mounted, complaints, complaintsFetching, selectedComplaint,
                   isDetailModalOpen, cmRequests, cmToast>>

\* resolveComplaintMutation.isPending
ResolvePending == \E r \in cmRequests : r.kind = "resolve"

\* the resolution modal's 'Resolve Complaint' button: handleResolveComplaint
handleResolveComplaint ==
    /\ isResolutionModalOpen
    /\ resolutionData.resolution_action # ""
    /\ resolutionData.resolution_report # ""
    /\ ~ResolvePending
    /\ CanSend
    /\ IF selectedComplaint # NoComplaint
       THEN cmRequests' = cmRequests \cup
               {[kind |-> "resolve", id |-> selectedComplaint.id, status |-> "-",
                 held |-> selectedComplaint.status]}
       ELSE UNCHANGED cmRequests
    /\ UNCHANGED <<notCM, mounted, complaints, complaintsFetching, selectedComplaint,
                   isDetailModalOpen, isResolutionModalOpen, resolutionData, cmToast>>

\* handleAssignComplaint(complaintId, userId); no control of the page calls it
handleAssignComplaint(complaintId, userId) ==
    /\ IsAdmin
    /\ PageClickable
    /\ complaintId \in DOMAIN complaints
    /\ CanSend
    /\ cmRequests' = cmRequests \cup
          {[kind |-> "assign", id |-> complaintId, status |-> "-",
            held |-> "-"]}
    /\ UNCHANGED <<notCM, mounted, complaints, complaintsFetching, selectedComplaint,
                   isDetailModalOpen, isResolutionModalOpen, resolutionData, cmToast>>

SuccessToast(kind) ==
    IF kind = "status" THEN "Complaint status updated successfully"
    ELSE IF kind = "resolve" THEN "Complaint resolved successfully"
    ELSE "Complaint assigned successfully"

\* an optimistic update: the callback writes the new status into the held list
MutMutationSucceeded(r) ==
    /\ r \in cmRequests
    /\ cmRequests' = cmRequests \ {r}
    /\ complaintsFetching' = TRUE
    /\ cmToast' = SuccessToast(r.kind)
    /\ complaints' = [id \in DOMAIN complaints |->
                        IF id = r.id /\ r.kind = "status" THEN r.status
                        ELSE IF id = r.id /\ r.kind = "resolve" THEN "resolved"
                        ELSE complaints[id]]
    /\ isResolutionModalOpen' = (IF r.kind = "resolve" THEN FALSE ELSE isResolutionModalOpen)
    /\ resolutionData' = (IF r.kind = "resolve" THEN EmptyResolution ELSE resolutionData)
    /\ UNCHANGED <<notCM, mounted, selectedComplaint, isDetailModalOpen>>

\* onSuccess of the three mutations
MutationSucceeded(r) ==
    /\ r \in cmRequests
    /\ cmRequests' = cmRequests \ {r}
    /\ complaintsFetching' = TRUE           \* invalidateQueries(['admin-complaints'])
    /\ cmToast' = SuccessToast(r.kind)
    /\ IF r.kind = "resolve"
       THEN /\ isResolutionModalOpen' = FALSE
            /\ resolutionData' = EmptyResolution
       ELSE UNCHANGED <<isResolutionModalOpen, resolutionData>>
    /\ UNCHANGED <<notCM, mounted, complaints, selectedComplaint, isDetailModalOpen>>

\* error.response?.data?.detail || fallback
ErrorToast(kind, detail) ==
    IF detail # "" THEN detail
    ELSE IF kind = "status" THEN "Failed to update status"
    ELSE IF kind = "resolve" THEN "Failed to resolve complaint"
    ELSE "Failed to assign complaint"

\* onError of the three mutations; detail "" stands for no detail in the answer
MutMutationFailed(r, detail) ==
    /\ r \in cmRequests
    /\ cmRequests' = cmRequests \ {r}
    /\ cmToast' = ErrorToast(r.kind, detail)
    /\ isResolutionModalOpen' = (IF r.kind = "resolve" THEN FALSE ELSE isResolutionModalOpen)
    /\ resolutionData' = (IF r.kind = "resolve" THEN EmptyResolution ELSE resolutionData)
    /\ UNCHANGED <<notCM, mounted, complaints, complaintsFetching, selectedComplaint,
                   isDetailModalOpen>>

MutationFailed(r, detail) ==
    /\ r \in cmRequests
    /\ cmRequests' = cmRequests \ {r}
    /\ cmToast' = ErrorToast(r.kind, detail)
    /\ UNCHANGED <<notCM, mounted, complaints, complaintsFetching, selectedComplaint,
                   isDetailModalOpen, isResolutionModalOpen, resolutionData>>

ServerDetails == {"", "Invalid status transition"}

CMNext ==
    \/ \E data \in ComplaintLists : ComplaintsFetched(data)
    \/ ComplaintsFetchFailed
    \/ ComplaintsRefetch
    \/ \E id \in ComplaintIds : handleViewDetails(id)
    \/ handleCloseModal
    \/ \E id \in ComplaintIds : ListStartReview(id)
    \/ \E id \in ComplaintIds : ListResolve(id)
    \/ DetailStartReview
    \/ DetailResolve
    \/ \E field \in DOMAIN EmptyResolution, text \in Texts : SetResolutionField(field, text)
    \/ handleCloseResolutionModal
    \/ handleResolveComplaint
    \/ \E id \in ComplaintIds, u \in UserIds : handleAssignComplaint(id, u)
    \/ \E r \in cmRequests : MutationSucceeded(r)
    \/ \E r \in cmRequests, detail \in ServerDetails : MutationFailed(r, detail)


----------------------------------------------------------------------------
(* PriceManagement.getReferencePrice *)

SkuIds == {1, 2}

DistrictIds == {1, 2}

\* ReferencePrice.district of a global reference price: null
NoDistrict == 0

\* the longest reference price list of the model
MaxRefs == 3

\* JavaScript values passed as ids: a number, the string holding a number's
\* digits, the empty string, undefined
Num(n) == [t |-> "number", v |-> n]

Str(n) == [t |-> "string", v |-> n]

EmptyStr == [t |-> "string", v |-> 0]

Undefined == [t |-> "undefined", v |-> 0]

\* !value
Falsy(value) == value = Undefined \/ value = EmptyStr \/ value = Num(0)

\* a === b for a number a held in the data and a passed value b
StrictEq(number, value) == value = Num(number)

ReferencePrice == [sku : SkuIds, district : DistrictIds \cup {NoDistrict}]

NoRef == [sku |-> 0, district |-> NoDistrict]

RefLists == UNION {[1..n -> ReferencePrice] : n \in 0..MaxRefs}

ReturnedRef(ref) == [kind |-> "ref", ref |-> ref]

ReturnedNull == [kind |-> "null", ref |-> NoRef]

ReturnedUndefined == [kind |-> "undefined", ref |-> NoRef]

NotCalled == [kind |-> "none", ref |-> NoRef]

\* Array.prototype.find: the first element whose index is among hits, the
\* indices that satisfy the test, or undefined
Find(list, hits) ==
    IF hits # {}
    THEN ReturnedRef(list[CHOOSE i \in hits : \A j \in hits : i <= j])
    ELSE ReturnedUndefined

\* ref.district?.id === districtId
DistrictMatches(ref, districtId) ==
    IF ref.district = NoDistrict THEN districtId = Undefined
    ELSE StrictEq(ref.district, districtId)

getReferencePrice(skuId, districtId) ==
    IF ~referencePrices.loaded THEN ReturnedNull
    ELSE LET IsSpecific(ref) == StrictEq(ref.sku, skuId) /\ DistrictMatches(ref, districtId)
             IsGlobal(ref) == StrictEq(ref.sku, skuId) /\ ref.district = NoDistrict
             results == referencePrices.results
             districtSpecific ==
                 IF Falsy(districtId) THEN ReturnedUndefined
                 ELSE Find(results, {i \in 1..Len(results) : IsSpecific(results[i])})
         IN IF districtSpecific.kind = "ref" THEN districtSpecific
            ELSE Find(results, {i \in 1..Len(results) : IsGlobal(results[i])})

RPInit ==
    /\ referencePrices = [loaded |-> FALSE, results |-> <<>>]
    /\ rpArgs = [site |-> "none", sku |-> Undefined, district |-> Undefined]
    /\ rpResult = NotCalled

\* the reference-prices query answers
ReferencePricesFetched(list) ==
    /\ ~referencePrices.loaded
    /\ referencePrices' = [loaded |-> TRUE, results |-> list]
    /\ rpArgs' = [site |-> "none", sku |-> Undefined, district |-> Undefined]
    /\ rpResult' = NotCalled
    /\ UNCHANGED notRP

\* the table's 'Reference Price' column:
\* getReferencePrice(item.sku.id, item.district?.id)
RenderReferencePriceCell(sku, district) ==
    /\ rpArgs' = [site |-> "table", sku |-> Num(sku), district |-> Num(district)]
    /\ rpResult' = getReferencePrice(Num(sku), Num(district))
    /\ UNCHANGED <<referencePrices, notRP>>

\* what watch() gives for a select: the option's value, a string, once the
\* user has chosen; the number handleEdit's reset() put there before that
WatchedValues == {EmptyStr, Undefined} \cup {Str(n) : n \in SkuIds} \cup {Num(n) : n \in SkuIds}

\* the modal's 'Reference Price' line, rendered when watchedSkuId is truthy:
\* getReferencePrice(watchedSkuId, watchedDistrictId || undefined)
RenderReferencePriceHint(watchedSkuId, watchedDistrictId) ==
    /\ ~Falsy(watchedSkuId)
    /\ LET districtId == IF Falsy(watchedDistrictId) THEN Undefined ELSE watchedDistrictId IN
        /\ rpArgs' = [site |-> "form", sku |-> watchedSkuId, district |-> districtId]
        /\ rpResult' = getReferencePrice(watchedSkuId, districtId)
    /\ UNCHANGED <<referencePrices, notRP>>

RPNext ==
    \/ \E list \in RefLists : ReferencePricesFetched(list)
    \/ \E sku \in SkuIds, district \in DistrictIds : RenderReferencePriceCell(sku, district)
    \/ \E w1 \in WatchedValues, w2 \in WatchedValues : RenderReferencePriceHint(w1, w2)


----------------------------------------------------------------------------
(* PriceManagement *)

\* a form field left blank, a price with no district
Blank == 0

\* the published prices the server may list: id, sku.id, district.id, price
PriceCatalog ==
    {[id |-> 1, sku |-> 1, district |-> 1, price |-> 5],
     [id |-> 2, sku |-> 1, district |-> Blank, price |-> 5]}

\* the longest published price list of the model
MaxPrices == 2

PriceLists ==
    {list \in UNION {[1..n -> PriceCatalog] : n \in 0..MaxPrices} :
        \A i, j \in 1..Len(list) : i # j => list[i].id # list[j].id}

NoPrice == [id |-> 0, sku |-> 0, district |-> 0, price |-> 0]

\* reset() with no values
BlankForm == [sku_id |-> Blank, district_id |-> Blank, price |-> Blank]

FieldValues(field) ==
    IF field = "sku_id" THEN {Blank} \cup SkuIds
    ELSE IF field = "district_id" THEN {Blank, 1}
    ELSE {Blank, 5}

NoVariables == BlankForm

IdleMutation == [isPending |-> FALSE, id |-> 0, variables |-> NoVariables]

OverlapMessage ==
    "You already have an active price for this product. Please edit the existing price or wait for it to expire."

\* the shapes of a rejection: the overlap array, an object of field errors,
\* another body, no response at all
RejectionKinds == {"overlap", "fields", "other", "none"}

NoRejection == [at |-> FALSE, populated |-> FALSE, open |-> FALSE,
                editing |-> NoPrice, form |-> BlankForm]

PMInit ==
    /\ publishedPrices = [loaded |-> FALSE, fetching |-> TRUE, results |-> <<>>]
    /\ isCreateModalOpen = FALSE
    /\ editingPrice = NoPrice
    /\ pmError = ""
    /\ form = BlankForm
    /\ createMutation = IdleMutation
    /\ updateMutation = IdleMutation
    /\ deletePending = 0
    /\ timers = {}
    /\ rejected = NoRejection
    /\ closedByUser = FALSE

\* the page is rendered once the queries have loaded
PageShown == publishedPrices.loaded

\* the published-prices query answers
PublishedPricesFetched(list) ==
    /\ publishedPrices.fetching
    /\ publishedPrices' = [loaded |-> TRUE, fetching |-> FALSE, results |-> list]
    /\ UNCHANGED <<notPM, isCreateModalOpen, editingPrice, pmError, form,
                   createMutation, updateMutation, deletePending, timers, rejected,
                   closedByUser>>

\* queryClient.invalidateQueries({ queryKey: ['published-prices'] })
Invalidated == [publishedPrices EXCEPT !.fetching = TRUE]

\* the 'Publish New Price' button
OpenCreateModal ==
    /\ PageShown
    /\ ~isCreateModalOpen
    /\ isCreateModalOpen' = TRUE
    /\ rejected' = NoRejection
    /\ closedByUser' = FALSE
    /\ UNCHANGED <<notPM, publishedPrices, editingPrice, pmError, form,
                   createMutation, updateMutation, deletePending, timers>>

\* handleEdit(price): setEditingPrice, reset({...}), setIsCreateModalOpen(true)
handleEdit(price) ==
    /\ editingPrice' = price
    /\ form' = [sku_id |-> price.sku, district_id |-> price.district, price |-> price.price]
    /\ isCreateModalOpen' = TRUE

\* the pencil button of a table row
EditClicked(i) ==
    /\ PageShown
    /\ ~isCreateModalOpen
    /\ i \in 1..Len(publishedPrices.results)
    /\ handleEdit(publishedPrices.results[i])
    /\ rejected' = NoRejection
    /\ closedByUser' = FALSE
    /\ UNCHANGED <<notPM, publishedPrices, pmError, createMutation, updateMutation,
                   deletePending, timers>>

\* handleDelete(id), confirmed
handleDelete(i) ==
    /\ PageShown
    /\ ~isCreateModalOpen
    /\ i \in 1..Len(publishedPrices.results)
    /\ deletePending = 0
    /\ deletePending' = 1
    /\ rejected' = NoRejection
    /\ UNCHANGED closedByUser
    /\ UNCHANGED <<notPM, publishedPrices, isCreateModalOpen, editingPrice, pmError,
                   form, createMutation, updateMutation, timers>>

\* deletePriceMutation.onSuccess; it has no onError
DeleteAnswered(ok) ==
    /\ deletePending > 0
    /\ deletePending' = deletePending - 1
    /\ publishedPrices' = (IF ok THEN Invalidated ELSE publishedPrices)
    /\ UNCHANGED <<notPM, isCreateModalOpen, editingPrice, pmError, form,
                   createMutation, updateMutation, timers, rejected,
                   closedByUser>>

\* a field of the form is changed
SetFormField(field, value) ==
    /\ isCreateModalOpen
    /\ form[field] # value
    /\ form' = [form EXCEPT ![field] = value]
    /\ rejected' = NoRejection
    /\ UNCHANGED closedByUser
    /\ UNCHANGED <<notPM, publishedPrices, isCreateModalOpen, editingPrice, pmError,
                   createMutation, updateMutation, deletePending, timers>>

\* the submit button shows loading while a mutation is pending
SubmitEnabled == ~createMutation.isPending /\ ~updateMutation.isPending

\* register(...) rules: sku_id required, price required and at least 0.01
FormValid == form.sku_id # Blank /\ form.price # Blank

\* handleSubmit(onSubmit)
onSubmit ==
    /\ isCreateModalOpen
    /\ SubmitEnabled
    /\ FormValid
    /\ IF editingPrice # NoPrice
       THEN /\ updateMutation' =
                  [isPending |-> TRUE, id |-> editingPrice.id, variables |-> NoVariables]
            /\ UNCHANGED createMutation
       ELSE /\ createMutation' = [isPending |-> TRUE, id |-> 0, variables |-> form]
            /\ UNCHANGED updateMutation
    /\ rejected' = NoRejection
    /\ UNCHANGED closedByUser
    /\ UNCHANGED <<notPM, publishedPrices, isCreateModalOpen, editingPrice, pmError,
                   form, deletePending, timers>>

\* createPriceMutation.onSuccess
CreateSucceeded ==
    /\ createMutation.isPending
    /\ createMutation' = IdleMutation
    /\ publishedPrices' = Invalidated
    /\ isCreateModalOpen' = FALSE
    /\ pmError' = ""
    /\ rejected' = NoRejection
    /\ UNCHANGED closedByUser
    /\ UNCHANGED <<notPM, editingPrice, form, updateMutation, deletePending, timers>>

\* publishedPrices.data.results.find(price => price.sku.id === currentData.sku_id)
ExistingPrice(skuId) ==
    LET list == publishedPrices.results IN
    IF publishedPrices.loaded /\ \E i \in 1..Len(list) : list[i].sku = skuId
    THEN list[CHOOSE i \in 1..Len(list) :
                 list[i].sku = skuId /\ \A j \in 1..(i - 1) : list[j].sku # skuId]
    ELSE NoPrice

\* the text setError is called with
RejectionText(kind) ==
    IF kind = "overlap" THEN OverlapMessage
    ELSE IF kind = "fields" THEN "This field is required."
    ELSE "An error occurred"

\* the timers after the onError callback: setTimeout(() => handleEdit(existingPrice), 1000)
TimersAfterRejection(kind) ==
    IF kind = "overlap" /\ ExistingPrice(createMutation.variables.sku_id) # NoPrice
    THEN timers \cup {ExistingPrice(createMutation.variables.sku_id)}
    ELSE timers

\* the rejection handler populates the form at once
MutCreateFailed(kind) ==
    /\ createMutation.isPending
    /\ createMutation' = IdleMutation
    /\ pmError' = RejectionText(kind)
    /\ timers' = timers
    /\ IF kind = "overlap" /\ ExistingPrice(createMutation.variables.sku_id) # NoPrice
       THEN handleEdit(ExistingPrice(createMutation.variables.sku_id))
       ELSE UNCHANGED <<isCreateModalOpen, editingPrice, form>>
    /\ rejected' = [at |-> TRUE, populated |-> FALSE, open |-> isCreateModalOpen,
                    editing |-> editingPrice, form |-> form]
    /\ UNCHANGED closedByUser
    /\ UNCHANGED <<notPM, publishedPrices, updateMutation, deletePending>>

\* createPriceMutation.onError
CreateFailed(kind) ==
    /\ createMutation.isPending
    /\ createMutation' = IdleMutation
    /\ pmError' = RejectionText(kind)
    /\ timers' = TimersAfterRejection(kind)
    /\ rejected' = [at |-> TRUE, populated |-> FALSE, open |-> isCreateModalOpen,
                    editing |-> editingPrice, form |-> form]
    /\ UNCHANGED closedByUser
    /\ UNCHANGED <<notPM, publishedPrices, isCreateModalOpen, editingPrice, form,
                   updateMutation, deletePending>>

\* the timeout of onError elapses: handleEdit(existingPrice)
TimerFires(price) ==
    /\ price \in timers
    /\ timers' = timers \ {price}
    /\ handleEdit(price)
    /\ rejected' = (IF rejected.at THEN [rejected EXCEPT !.populated = TRUE] ELSE rejected)
    /\ UNCHANGED closedByUser
    /\ UNCHANGED <<notPM, publishedPrices, pmError, createMutation, updateMutation,
                   deletePending>>

\* updatePriceMutation.onSuccess
UpdateSucceeded ==
    /\ updateMutation.isPending
    /\ updateMutation' = IdleMutation
    /\ publishedPrices' = Invalidated
    /\ editingPrice' = NoPrice
    /\ pmError' = ""
    /\ rejected' = NoRejection
    /\ UNCHANGED closedByUser
    /\ UNCHANGED <<notPM, isCreateModalOpen, form, createMutation, deletePending, timers>>

\* updatePriceMutation.onError
UpdateFailed ==
    /\ updateMutation.isPending
    /\ updateMutation' = IdleMutation
    /\ pmError' = "An error occurred"
    /\ rejected' = NoRejection
    /\ UNCHANGED closedByUser
    /\ UNCHANGED <<notPM, publishedPrices, isCreateModalOpen, editingPrice, form,
                   createMutation, deletePending, timers>>

\* handleCloseModal: the Cancel button and the modal's onClose
PMhandleCloseModal ==
    /\ isCreateModalOpen
    /\ isCreateModalOpen' = FALSE
    /\ editingPrice' = NoPrice
    /\ pmError' = ""
    /\ form' = BlankForm
    /\ rejected' = NoRejection
    /\ closedByUser' = TRUE
    /\ UNCHANGED <<notPM, publishedPrices, createMutation, updateMutation,
                   deletePending, timers>>

PMNext ==
    \/ \E list \in PriceLists : PublishedPricesFetched(list)
    \/ OpenCreateModal
    \/ \E i \in 1..MaxPrices : EditClicked(i)
    \/ \E i \in 1..MaxPrices : handleDelete(i)
    \/ \E ok \in BOOLEAN : DeleteAnswered(ok)
    \/ \E field \in DOMAIN BlankForm : \E value \in FieldValues(field) : SetFormField(field, value)
    \/ onSubmit
    \/ CreateSucceeded
    \/ \E kind \in RejectionKinds : CreateFailed(kind)
    \/ \E price \in PriceCatalog : TimerFires(price)
    \/ UpdateSucceeded
    \/ UpdateFailed
    \/ PMhandleCloseModal


----------------------------------------------------------------------------
(* ComplaintRegistration *)

\* parseInt('') of a select left on its placeholder option
NaN == -1

\* the most evidence files attached in the model
MaxFiles == 1

InitialFormData ==
    [title |-> "", description |-> "", district |-> 0, sku |-> 0,
     reported_retailer |-> 0, reported_price |-> 0]

\* what each input hands to handleInputChange
InputValues(field) ==
    IF field \in {"title", "description"} THEN {"", "text"}
    ELSE IF field = "reported_price" THEN {0, 5}
    ELSE {NaN, 1}

\* !value of JavaScript, for a number
NotNum(n) == n = 0 \/ n = NaN

\* a validation that forgets the retailer
MutRequiredFieldMissing(data) ==
    \/ data.title = ""
    \/ data.description = ""
    \/ NotNum(data.district)
    \/ NotNum(data.sku)
    \/ NotNum(data.reported_price)

\* the condition of the if in handleSubmit
RequiredFieldMissing(data) ==
    \/ data.title = ""
    \/ data.description = ""
    \/ NotNum(data.district)
    \/ NotNum(data.sku)
    \/ NotNum(data.reported_retailer)
    \/ NotNum(data.reported_price)

IdleCreate == [phase |-> "idle", data |-> InitialFormData, left |-> 0, uploadSuccess |-> TRUE]

FillFieldsToast == "Please fill in all required fields"

CRInit ==
    /\ isOpen = FALSE
    /\ formData = InitialFormData
    /\ evidenceFiles = 0
    /\ isSubmitting = FALSE
    /\ createComplaint = IdleCreate
    /\ crToast = ""
    /\ crLast = "mount"

\* the 'Register Complaint' button
OpenRegistration ==
    /\ ~isOpen
    /\ isOpen' = TRUE
    /\ crLast' = "open"
    /\ UNCHANGED <<notCR, formData, evidenceFiles, isSubmitting, createComplaint, crToast>>

handleInputChange(field, value) ==
    /\ isOpen
    /\ formData' = [formData EXCEPT ![field] = value]
    /\ crLast' = "handleInputChange"
    /\ UNCHANGED <<notCR, isOpen, evidenceFiles, isSubmitting, createComplaint, crToast>>

handleFileUpload ==
    /\ isOpen
    /\ evidenceFiles < MaxFiles
    /\ evidenceFiles' = evidenceFiles + 1
    /\ crLast' = "handleFileUpload"
    /\ UNCHANGED <<notCR, isOpen, formData, isSubmitting, createComplaint, crToast>>

removeFile ==
    /\ isOpen
    /\ evidenceFiles > 0
    /\ evidenceFiles' = evidenceFiles - 1
    /\ crLast' = "removeFile"
    /\ UNCHANGED <<notCR, isOpen, formData, isSubmitting, createComplaint, crToast>>

\* handleSubmit; the submit button is disabled while isSubmitting
handleSubmit ==
    /\ isOpen
    /\ ~isSubmitting
    /\ crLast' = "handleSubmit"
    /\ IF RequiredFieldMissing(formData)
       THEN /\ crToast' = FillFieldsToast
            /\ isSubmitting' = FALSE
            /\ UNCHANGED createComplaint
       ELSE /\ isSubmitting' = TRUE
            /\ createComplaint' = [phase |-> "pending", data |-> formData,
                                   left |-> 0, uploadSuccess |-> TRUE]
            /\ UNCHANGED crToast
    /\ UNCHANGED <<notCR, isOpen, formData, evidenceFiles>>

\* handleClose: setIsOpen(false), the form and the files are cleared
handleClose ==
    /\ isOpen' = FALSE
    /\ formData' = InitialFormData
    /\ evidenceFiles' = 0

\* the Cancel button (enabled while not submitting) and the modal's onClose
CloseRegistration ==
    /\ isOpen
    /\ handleClose
    /\ crLast' = "handleClose"
    /\ UNCHANGED <<notCR, isSubmitting, createComplaint, crToast>>

\* the end of onSuccess and the finally of handleSubmit
FinishSubmit(text) ==
    /\ crToast' = text
    /\ handleClose
    /\ createComplaint' = IdleCreate
    /\ isSubmitting' = FALSE

\* createComplaintMutation.onSuccess up to the first upload, or to its end
CreateComplaintSucceeded(hasId) ==
    /\ createComplaint.phase = "pending"
    /\ crLast' = "onSuccess"
    /\ IF evidenceFiles > 0 /\ hasId
       THEN /\ createComplaint' = [createComplaint EXCEPT !.phase = "uploading",
                                       !.left = evidenceFiles, !.uploadSuccess = TRUE]
            /\ UNCHANGED <<isOpen, formData, evidenceFiles, isSubmitting, crToast>>
       ELSE FinishSubmit("Complaint submitted successfully!")
    /\ UNCHANGED notCR

\* one uploadComplaintEvidence call of the loop answers
UploadAnswered(ok) ==
    /\ createComplaint.phase = "uploading"
    /\ crLast' = "upload"
    /\ LET success == createComplaint.uploadSuccess /\ ok IN
       IF createComplaint.left > 1
       THEN /\ createComplaint' = [createComplaint EXCEPT !.left = @ - 1,
                                       !.uploadSuccess = success]
            /\ UNCHANGED <<isOpen, formData, evidenceFiles, isSubmitting, crToast>>
       ELSE FinishSubmit(IF success
                         THEN "Complaint and evidence submitted successfully!"
                         ELSE "Complaint submitted successfully, but some evidence files failed to upload")
    /\ UNCHANGED notCR

\* createComplaintMutation.onError, then the finally of handleSubmit
CreateComplaintFailed(detail) ==
    /\ createComplaint.phase = "pending"
    /\ crLast' = "onError"
    /\ crToast' = (IF detail # "" THEN detail ELSE "Failed to submit complaint")
    /\ createComplaint' = IdleCreate
    /\ isSubmitting' = FALSE
    /\ UNCHANGED <<notCR, isOpen, formData, evidenceFiles>>

CRNext ==
    \/ OpenRegistration
    \/ \E field \in DOMAIN InitialFormData : \E value \in InputValues(field) :
           handleInputChange(field, value)
    \/ handleFileUpload
    \/ removeFile
    \/ handleSubmit
    \/ CloseRegistration
    \/ \E hasId \in BOOLEAN : CreateComplaintSucceeded(hasId)
    \/ \E ok \in BOOLEAN : UploadAnswered(ok)
    \/ \E detail \in {"", "Invalid data"} : CreateComplaintFailed(detail)

----------------------------------------------------------------------------
(* ComparisonPage *)

\* the rows of the 'Available Prices' list
NumRows == 6

PriceIds == 1..NumRows

\* the cap of the row's onClick and of the checkbox's disabled
MaxSelections == 5

Includes(list, id) == \E i \in 1..Len(list) : list[i] = id

\* prev.filter(id => id !== priceId)
Without(list, id) == SelectSeq(list, LAMBDA x : x # id)

\* the updater of handleTogglePrice
Toggled(prev, priceId) ==
    IF Includes(prev, priceId) THEN Without(prev, priceId) ELSE Append(prev, priceId)

\* the row's onClick, with the selectedPrices of the render it closed over
RowOnClick(rendered, prev, priceId) ==
    IF Includes(rendered, priceId) THEN Toggled(prev, priceId)
    ELSE IF Len(rendered) < MaxSelections THEN Toggled(prev, priceId)
    ELSE prev

\* the checkbox's disabled attribute
CheckboxDisabled(priceId) ==
    ~Includes(selectedPrices, priceId) /\ Len(selectedPrices) >= MaxSelections

NoClick == [kind |-> "none", id |-> 0, wasSelected |-> FALSE]

CPInit ==
    /\ selectedPrices = <<>>
    /\ cpLast = NoClick

\* a click on a row outside its checkbox
RowClick(priceId) ==
    /\ selectedPrices' = RowOnClick(selectedPrices, selectedPrices, priceId)
    /\ cpLast' = [kind |-> "row", id |-> priceId,
                  wasSelected |-> Includes(selectedPrices, priceId)]
    /\ UNCHANGED notCP

\* a click on a row's checkbox: its onChange runs, and the click bubbles to
\* the row's onClick; both updaters are applied before the next render
CheckboxClick(priceId, changeFirst) ==
    /\ ~CheckboxDisabled(priceId)
    /\ selectedPrices' =
          (IF changeFirst
           THEN RowOnClick(selectedPrices, Toggled(selectedPrices, priceId), priceId)
           ELSE Toggled(RowOnClick(selectedPrices, selectedPrices, priceId), priceId))
    /\ cpLast' = [kind |-> "checkbox", id |-> priceId,
                  wasSelected |-> Includes(selectedPrices, priceId)]
    /\ UNCHANGED notCP

CPNext ==
    \/ \E priceId \in PriceIds : RowClick(priceId)
    \/ \E priceId \in PriceIds : \E changeFirst \in BOOLEAN : CheckboxClick(priceId, changeFirst)


----------------------------------------------------------------------------
(* RetailerDashboard and CompliancePage: the compliance figures *)

\* the longest price list of the model
MaxCompliance == 4

\* PublishedPrice.compliant as the JSON carries it
CompliantFlags == {"true", "false", "null"}

FlagLists == UNION {[1..n -> CompliantFlags] : n \in 0..MaxCompliance}

CompliancePages == {"RetailerDashboard", "CompliancePage"}

\* publishedPrices?.data.results || []
prices == IF cfPrices.loaded THEN cfPrices.flags ELSE <<>>

\* price => price.compliant, read as a condition
Truthy(flag) == flag = "true"

totalPrices == Len(prices)

\* a filter that keeps every price whose flag is not false
MutcompliantPrices == Cardinality({i \in 1..Len(prices) : prices[i] # "false"})

compliantPrices == Cardinality({i \in 1..Len(prices) : Truthy(prices[i])})

nonCompliantPrices == totalPrices - compliantPrices

\* (compliantPrices / totalPrices) * 100, or 0: kept as a fraction
complianceRate ==
    IF totalPrices > 0
    THEN [num |-> compliantPrices * 100, den |-> totalPrices]
    ELSE [num |-> 0, den |-> 1]

CFInit ==
    /\ cfPage \in CompliancePages
    /\ cfPrices = [loaded |-> FALSE, flags |-> <<>>]

\* the published-prices query answers (first load or refetch)
CompliancePricesFetched(list) ==
    /\ cfPrices' = [loaded |-> TRUE, flags |-> list]
    /\ UNCHANGED <<cfPage, notCF>>

\* the retailer goes from one of the two pages to the other; the query
\* cache is shared
ComplianceNavigate(page) ==
    /\ page # cfPage
    /\ cfPage' = page
    /\ UNCHANGED <<cfPrices, notCF>>

CFNext ==
    \/ \E list \in FlagLists : CompliancePricesFetched(list)
    \/ \E page \in CompliancePages : ComplianceNavigate(page)

----------------------------------------------------------------------------
\* the state of a component that is not on the page
AuthIdle ==
    /\ user = NoUser
    /\ isLoading = TRUE
    /\ accessToken = NoToken
    /\ refreshToken = NoToken
    /\ calls = NoCalls
    /\ initPc = "start"
    /\ authReq = "idle"
    /\ route = "/login"
    /\ effectDue = TRUE
    /\ navPending = "none"
    /\ showUserMenu = FALSE
    /\ loginDuringInit = FALSE

CMIdle ==
    /\ mounted = "none"
    /\ complaints = <<>>
    /\ complaintsFetching = FALSE
    /\ selectedComplaint = NoComplaint
    /\ isDetailModalOpen = FALSE
    /\ isResolutionModalOpen = FALSE
    /\ resolutionData = EmptyResolution
    /\ cmRequests = {}
    /\ cmToast = "none"

PMIdle ==
    /\ publishedPrices = [loaded |-> FALSE, fetching |-> FALSE, results |-> <<>>]
    /\ isCreateModalOpen = FALSE
    /\ editingPrice = NoPrice
    /\ pmError = ""
    /\ form = BlankForm
    /\ createMutation = IdleMutation
    /\ updateMutation = IdleMutation
    /\ deletePending = 0
    /\ timers = {}
    /\ rejected = NoRejection
    /\ closedByUser = FALSE

CFIdle ==
    /\ cfPage = "RetailerDashboard"
    /\ cfPrices = [loaded |-> FALSE, flags |-> <<>>]

InitAuth == AuthInit /\ CMIdle /\ RPInit /\ PMIdle /\ CRInit /\ CPInit /\ CFIdle

InitCM == AuthIdle /\ CMInit /\ RPInit /\ PMIdle /\ CRInit /\ CPInit /\ CFIdle

InitRP == AuthIdle /\ CMIdle /\ RPInit /\ PMIdle /\ CRInit /\ CPInit /\ CFIdle

InitPM == AuthIdle /\ CMIdle /\ RPInit /\ PMInit /\ CRInit /\ CPInit /\ CFIdle

InitCR == AuthIdle /\ CMIdle /\ RPInit /\ PMIdle /\ CRInit /\ CPInit /\ CFIdle

InitCP == AuthIdle /\ CMIdle /\ RPInit /\ PMIdle /\ CRInit /\ CPInit /\ CFIdle

InitApi == ApiInit /\ CMIdle /\ RPInit /\ PMIdle /\ CRInit /\ CPInit /\ CFIdle

InitCF == AuthIdle /\ CMIdle /\ RPInit /\ PMIdle /\ CRInit /\ CPInit /\ CFInit

SpecAuth == InitAuth /\ [][AuthNext]_vars

SpecApi == InitApi /\ [][ApiNext]_vars

\* every request in flight is answered in the end
ProfileAnswered ==
    \/ \E role \in Roles : ProfileFetched(role)
    \/ \E answer \in Failures : ProfileFailed(answer)
    \/ Unauthorized("profile")
    \/ \E token \in Tokens : RefreshSucceeded("profile", token)

SpecStartup ==
    /\ InitAuth
    /\ [][StartupNext]_vars
    /\ WF_vars(InitializeAuth)
    /\ WF_vars(RunEffect)
    /\ WF_vars(HardNavigate)
    /\ WF_vars(ProfileAnswered)

SpecCM == InitCM /\ [][CMNext]_vars

SpecRP == InitRP /\ [][RPNext]_vars

SpecPM == InitPM /\ [][PMNext]_vars

SpecCR == InitCR /\ [][CRNext]_vars

SpecCP == InitCP /\ [][CPNext]_vars

SpecCF == InitCF /\ [][CFNext]_vars

Spec == SpecAuth

----------------------------------------------------------------------------
(* C1: ProtectedRoute renders its children only when auth loading has      *)
(* finished, a user is present and the user's role is among allowedRoles;  *)
(* in every other state it renders the spinner or nothing.                 *)
C1_GuardRendersChildrenOnlyForAllowedRole ==
    \A page \in ProtectedPages :
        LET shown == ProtectedRouteRender(AllowedRoles(page)) IN
        /\ shown \in {"spinner", "nothing", "children"}
        /\ shown = "children" <=>
              (~isLoading /\ isAuthenticated /\ user \in AllowedRoles(page))

\* a farmer is shown the farmer search page
C1_Witness ==
    /\ route = "/dashboard/farmer/search"
    /\ user = "farmer"
    /\ ~isLoading
    /\ ProtectedRouteRender(AllowedRoles(route)) = "children"

----------------------------------------------------------------------------
\* the pages that route by role: the guarded pages, the home page and the
\* dashboard index page
RoleRoutingPages == ProtectedPages \cup {"/", "/dashboard"}

(* C2: once auth loading has finished with no authenticated user, every    *)
(* page that routes by role redirects to /login: when the page's effect    *)
(* has run, such a visitor is not left on a role-routing page.             *)
C2_UnauthenticatedIsSentToLogin ==
    (Settled /\ ~isLoading /\ ~isAuthenticated) => route \notin RoleRoutingPages

\* the same statement without the dashboard index page, which has no
\* branch for a missing user
C2_GuardedPagesAndHomeSendToLogin ==
    (Settled /\ ~isLoading /\ ~isAuthenticated)
        => route \notin (RoleRoutingPages \ {"/dashboard"})

(* C3: an authenticated user whose role is not among a page's allowedRoles *)
(* is redirected to the dashboard of their own role, whose guard admits    *)
(* the role: when the page's effect has run, an authenticated user on a    *)
(* guarded page is admitted by it.                                         *)
C3_EveryRoleReachesItsDashboard ==
    (Settled /\ ~isLoading /\ isAuthenticated /\ route \in ProtectedPages)
        => user \in AllowedRoles(route)

\* the same statement for the three roles the front end's User type names
C3_FrontendRolesReachTheirDashboard ==
    (Settled /\ ~isLoading /\ user \in FrontendRoles /\ route \in ProtectedPages)
        => user \in AllowedRoles(route)

----------------------------------------------------------------------------
(* C4: ComplaintManagement only sends fixed transitions: every status      *)
(* update request carries the target 'under_review' and is sent for a      *)
(* complaint held as 'pending'; the resolution modal is opened only for a  *)
(* complaint held as 'under_review'; no other status has a transition      *)
(* button.                                                                 *)
C4_OnlyFixedTransitions ==
    [][ /\ \A r \in cmRequests' \ cmRequests :
              r.kind = "status" => (r.status = "under_review" /\ r.held = "pending")
        /\ (~isResolutionModalOpen /\ isResolutionModalOpen')
              => selectedComplaint'.status = "under_review"
        /\ \A st \in Statuses \ {"pending", "under_review"} :
              ~StartReviewOffered(st) /\ ~ResolveOffered(st)
      ]_vars

\* a status update is in flight while the resolution modal is open for
\* another complaint
C4_Witness ==
    /\ isResolutionModalOpen
    /\ selectedComplaint.status = "under_review"
    /\ \E r \in cmRequests : r.kind = "status" /\ r.id # selectedComplaint.id

(* C5: the client never writes a complaint's status: the held list changes *)
(* only when the complaints query answers, and the selected complaint is   *)
(* only ever cleared or set to an object of the held list.                 *)
C5_StatusChangesOnlyByServerData ==
    [][ /\ complaints' # complaints => (complaintsFetching /\ ~complaintsFetching')
        /\ selectedComplaint' # selectedComplaint =>
              \/ selectedComplaint' = NoComplaint
              \/ /\ selectedComplaint'.id \in DOMAIN complaints
                 /\ selectedComplaint'.status = complaints[selectedComplaint'.id]
      ]_vars

\* a status update has succeeded and the complaint is still held as pending
C5_Witness ==
    /\ cmToast = SuccessToast("status")
    /\ cmRequests = {}
    /\ complaintsFetching
    /\ selectedComplaint # NoComplaint
    /\ selectedComplaint.status = "pending"
    /\ complaints[selectedComplaint.id] = "pending"

(* C7: when a status-update, resolve or assign request fails, only an      *)
(* error toast (the server's detail or the fixed fallback) is shown: the   *)
(* modals, the selected complaint and the resolution form stay as they     *)
(* were.                                                                   *)
C7_FailureOnlyToasts ==
    [][ \A r \in cmRequests \ cmRequests' :
            \/ cmToast' = SuccessToast(r.kind)
            \/ /\ cmToast' \in {ErrorToast(r.kind, d) : d \in ServerDetails}
               /\ UNCHANGED <<isDetailModalOpen, isResolutionModalOpen,
                              selectedComplaint, resolutionData>>
      ]_vars

\* a resolve request has failed with the resolution modal open and filled in
C7_Witness ==
    /\ cmToast = "Failed to resolve complaint"
    /\ cmRequests = {}
    /\ isResolutionModalOpen
    /\ selectedComplaint # NoComplaint
    /\ resolutionData.resolution_action # ""
    /\ resolutionData.resolution_report # ""

----------------------------------------------------------------------------
\* the id a passed value stands for (0: none)
IdOf(value) == IF value.t \in {"number", "string"} THEN value.v ELSE 0

RefsOf(sku, district) ==
    {i \in 1..Len(referencePrices.results) :
        /\ referencePrices.results[i].sku = sku
        /\ referencePrices.results[i].district = district}

\* the claim, for the arguments of the last call
ReferencePriceLookupIsRight ==
    LET sku      == IdOf(rpArgs.sku)
        district == IdOf(rpArgs.district)
        specific == RefsOf(sku, district)
        global   == RefsOf(sku, NoDistrict)
    IN
    IF ~referencePrices.loaded THEN rpResult = ReturnedNull
    ELSE /\ (district # NoDistrict /\ specific # {}) =>
               \E i \in specific : rpResult = ReturnedRef(referencePrices.results[i])
         /\ (~(district # NoDistrict /\ specific # {}) /\ global # {}) =>
               \E i \in global : rpResult = ReturnedRef(referencePrices.results[i])
         /\ rpResult.kind = "ref" =>
               /\ rpResult.ref.sku = sku
               /\ rpResult.ref.district \in {NoDistrict, district}

(* C9: getReferencePrice(skuId, districtId) returns the reference price of *)
(* that SKU and that district when a district is given and one exists,     *)
(* otherwise the SKU's global reference price; never a price of another    *)
(* SKU or district; null when no reference data is loaded.                 *)
C9_ReferencePriceLookup ==
    rpResult # NotCalled => ReferencePriceLookupIsRight

\* the same for the calls that pass numbers (the table column, and the form
\* right after handleEdit)
C9_LookupWithNumberArguments ==
    (rpResult # NotCalled /\ rpArgs.sku.t = "number" /\ rpArgs.district.t # "string")
        => ReferencePriceLookupIsRight

----------------------------------------------------------------------------
\* the form values handleEdit resets the form to
FormOf(price) == [sku_id |-> price.sku, district_id |-> price.district, price |-> price.price]

\* C6, as stated: after the server rejects a published-price create the error
\* text is set, and the modal's open flag, the form contents and editingPrice
\* stay as the rejection found them for as long as the user does nothing.
C6_RejectionLeavesModalFormAndEditingPrice ==
    rejected.at =>
        /\ pmError # ""
        /\ isCreateModalOpen = rejected.open
        /\ editingPrice = rejected.editing
        /\ form = rejected.form

\* C6, corrected: the rejection handler itself sets the error text and leaves
\* the modal's open flag, the form contents and editingPrice as they were; a
\* timeout is scheduled only by the overlap rejection, for the first listed
\* price of the submitted SKU, and when it elapses handleEdit makes that price
\* the editingPrice, resets the form to it and opens the modal.
C6_RejectionSetsErrorAndOverlapAutoPopulatesLater ==
    /\ [](rejected.at /\ ~rejected.populated =>
            /\ pmError # ""
            /\ isCreateModalOpen = rejected.open
            /\ editingPrice = rejected.editing
            /\ form = rejected.form)
    /\ [][timers' # timers /\ timers \subseteq timers' =>
            /\ createMutation.isPending /\ ~createMutation'.isPending
            /\ pmError' = OverlapMessage
            /\ timers' = timers \cup {ExistingPrice(createMutation.variables.sku_id)}
            /\ ExistingPrice(createMutation.variables.sku_id).sku = createMutation.variables.sku_id]_vars
    /\ [](rejected.at /\ rejected.populated =>
            /\ pmError # ""
            /\ isCreateModalOpen
            /\ editingPrice \in PriceCatalog
            /\ form = FormOf(editingPrice))

\* an overlap rejection whose timeout has elapsed and changed editingPrice
C6_Witness ==
    /\ rejected.at
    /\ rejected.populated
    /\ pmError = OverlapMessage
    /\ editingPrice # rejected.editing
    /\ form # rejected.form

----------------------------------------------------------------------------
\* C8: a create-complaint request is in flight only with title, description,
\* district, sku, reported_retailer and reported_price all non-empty; a submit
\* with one of them empty shows 'Please fill in all required fields', sends
\* nothing and leaves isSubmitting false.
C8_NoRequestUnlessRequiredFieldsFilled ==
    /\ createComplaint.phase = "pending" =>
          /\ createComplaint.data.title # ""
          /\ createComplaint.data.description # ""
          /\ createComplaint.data.district \notin {0, NaN}
          /\ createComplaint.data.sku \notin {0, NaN}
          /\ createComplaint.data.reported_retailer \notin {0, NaN}
          /\ createComplaint.data.reported_price \notin {0, NaN}
    /\ (/\ crLast = "handleSubmit"
        /\ \/ formData.title = ""
           \/ formData.description = ""
           \/ formData.district \in {0, NaN}
           \/ formData.sku \in {0, NaN}
           \/ formData.reported_retailer \in {0, NaN}
           \/ formData.reported_price \in {0, NaN})
       => /\ crToast = FillFieldsToast
          /\ ~isSubmitting
          /\ createComplaint.phase = "idle"

\* a submit with everything filled in except the retailer
C8_Witness ==
    /\ crLast = "handleSubmit"
    /\ formData.title # ""
    /\ formData.description # ""
    /\ formData.district = 1
    /\ formData.sku = 1
    /\ formData.reported_price = 5
    /\ formData.reported_retailer = NaN
    /\ crToast = FillFieldsToast
    /\ ~isSubmitting

NoDuplicates(list) == \A i, j \in 1..Len(list) : i # j => list[i] # list[j]

\* C10: after any sequence of row clicks and checkbox clicks at most 5 ids are
\* selected, none twice, and a click on a row that was selected leaves that
\* row deselected.
C10_SelectionCappedAndClickedSelectedRowDeselected ==
    /\ Len(selectedPrices) <= MaxSelections
    /\ NoDuplicates(selectedPrices)
    /\ cpLast.kind # "none" /\ cpLast.wasSelected => ~Includes(selectedPrices, cpLast.id)

\* the part of C10 that holds: the cap, no duplicates, and deselection by a
\* click on the row outside its checkbox
C10_CappedAndRowClickOutsideCheckboxDeselects ==
    /\ Len(selectedPrices) <= MaxSelections
    /\ NoDuplicates(selectedPrices)
    /\ cpLast.kind = "row" /\ cpLast.wasSelected => ~Includes(selectedPrices, cpLast.id)

----------------------------------------------------------------------------
\* C11: for every list of published prices received, on both pages,
\* compliant + non-compliant = total, the compliance rate is 0 for the empty
\* list and otherwise compliant*100/total, within 0..100, and the prices
\* counted as compliant are exactly those whose compliant flag is true.
C11_ComplianceFiguresAddUp ==
    LET flags == IF cfPrices.loaded THEN cfPrices.flags ELSE <<>>
        trueFlags == {i \in DOMAIN flags : flags[i] = "true"}
    IN /\ totalPrices = Len(flags)
       /\ compliantPrices = Cardinality(trueFlags)
       /\ compliantPrices + nonCompliantPrices = totalPrices
       /\ nonCompliantPrices >= 0
       /\ Len(flags) = 0 => complianceRate.num = 0
       /\ Len(flags) > 0 =>
             complianceRate.num * Len(flags) = Cardinality(trueFlags) * 100 * complianceRate.den
       /\ complianceRate.den > 0
       /\ 0 <= complianceRate.num
       /\ complianceRate.num <= 100 * complianceRate.den

\* a received list with a compliant price, a non-compliant one and one whose
\* flag is missing
C11_Witness ==
    /\ cfPrices.loaded
    /\ \E i, j, k \in DOMAIN cfPrices.flags :
          /\ cfPrices.flags[i] = "true"
          /\ cfPrices.flags[j] = "false"
          /\ cfPrices.flags[k] = "null"
    /\ compliantPrices > 0
    /\ nonCompliantPrices > compliantPrices

\* C12: a click on either sign-out control, the sidebar's 'Logout' or the
\* header menu's 'Sign out', ends the session: both tokens are removed from
\* local storage and the user becomes null.
C12_SignOutControlsEndSession ==
    [][(Logout \/ HeaderSignOut) =>
           /\ accessToken' = NoToken
           /\ refreshToken' = NoToken
           /\ user' = NoUser]_vars

\* C13: when the refresh request made for a 401 resolves, both new tokens
\* are in local storage in the state in which the awaiting request is sent
\* again, and that request carries the new access token and has _retry set;
\* a request that has been sent again is never sent a second time: its next
\* answer, a 401 included, settles it (unless the document is replaced
\* first), and for the original request that settles the call.
C13_RefreshStoresTokensAndResendsOnce ==
    [][~HardNavigate => \A slot \in Slots :
          /\ (/\ calls[slot].active
              /\ calls'[slot].active
              /\ calls'[slot].nest < calls[slot].nest)
             => /\ accessToken' # NoToken
                /\ refreshToken' = accessToken'
                /\ calls'[slot].hdr = accessToken'
                /\ calls'[slot].retry
          /\ (/\ calls[slot].active
              /\ calls[slot].retry
              /\ calls'[slot] # calls[slot])
             => \/ /\ ~calls'[slot].active
                   /\ calls'[slot].result \in {"resolved", "rejected"}
                \/ /\ calls[slot].nest > 0
                   /\ calls'[slot].nest = calls[slot].nest - 1
          /\ (/\ calls[slot].active
              /\ ~calls[slot].retry
              /\ refreshToken # NoToken
              /\ ~calls'[slot].active
              /\ calls'[slot].result = "rejected")
             => \E answer \in Failures \ {"401"} : Rejects(calls[slot], answer)]_vars

\* a data request sent again after a refresh, carrying the access token
\* that the refresh stored together with its refresh token
C13_Witness ==
    \E slot \in DataSlots :
       /\ calls[slot].active
       /\ calls[slot].retry
       /\ calls[slot].nest = 0
       /\ calls[slot].hdr = accessToken
       /\ refreshToken = accessToken
       /\ accessToken # NoToken

C15_AtMostOneRefreshPerFailedRequest ==
    \A slot \in Slots : calls[slot].nest <= 1

\* C16: at most one token-refresh request is in flight at any time.
C16_AtMostOneRefreshInFlight ==
    Cardinality({slot \in Slots : calls[slot].active /\ calls[slot].nest > 0}) <= 1

\* C17 as stated: whenever the auth context holds a user, an access token is
\* in local storage.
C17_UserImpliesStoredToken ==
    isAuthenticated => accessToken # NoToken

\* C17: whenever the auth context holds a user, an access token is in local
\* storage, or the tokens have been removed together with the assignment
\* window.location.href = '/login' and the document is about to be replaced.
C17_UserImpliesStoredTokenUnlessLeaving ==
    isAuthenticated => (accessToken # NoToken \/ navPending = "/login")

\* a signed-in user whose request was rejected after a failed refresh: the
\* tokens are gone, the user is still set, the browser is leaving for /login
C17_Witness ==
    /\ isAuthenticated
    /\ accessToken = NoToken
    /\ refreshToken = NoToken
    /\ navPending = "/login"
    /\ \E slot \in Slots : ~calls[slot].active /\ calls[slot].result = "rejected"

\* C18: the step in which a login or register request is rejected leaves
\* the user and both stored tokens as they were and sets isLoading to false;
\* the call is rejected to its caller.
C18_FailedLoginLeavesSessionUnchanged ==
    [][(\E answer \in Failures : AuthFailed(answer)) =>
           /\ user' = user
           /\ accessToken' = accessToken
           /\ refreshToken' = refreshToken
           /\ ~isLoading'
           /\ calls'["auth"].result = "rejected"]_vars

\* C20: after a login that resolved while the startup profile fetch was in
\* flight, the session stays the login's: the settling of the startup fetch,
\* resolved or rejected, changes neither the user nor the stored tokens.
C20_LoginSurvivesStartupFetch ==
    [][(/\ loginDuringInit
        /\ \/ \E role \in Roles : ProfileFetched(role)
           \/ \E answer \in Failures : ProfileFailed(answer))
       => /\ user' = user
          /\ accessToken' = accessToken
          /\ refreshToken' = refreshToken]_vars

\* C19: after AuthProvider mounts, isLoading becomes false in the end on
\* every path, given that every request is answered; and the step in which
\* the startup profile fetch is rejected removes both stored tokens and
\* leaves user null.
C19_StartupLoadingEnds ==
    /\ isLoading ~> ~isLoading
    /\ [][(\E answer \in Failures : ProfileFailed(answer)) =>
              /\ accessToken' = NoToken
              /\ refreshToken' = NoToken
              /\ user' = NoUser]_vars

\* C21: the step in which a create or an update of a published price
\* succeeds leaves the create/edit modal closed and editingPrice null.
C21_SuccessClosesModalAndClearsEditingPrice ==
    [][(CreateSucceeded \/ UpdateSucceeded) =>
           /\ ~isCreateModalOpen'
           /\ editingPrice' = NoPrice]_vars

\* C22: once handleCloseModal has run, the modal stays closed and
\* editingPrice stays null until the user opens the modal again.
C22_ClosedModalStaysClosed ==
    closedByUser => (~isCreateModalOpen /\ editingPrice = NoPrice)

=============================================================================
